---- MODULE Spec2Model ----
(***************************************************************************)
(* Model of src/feature_engineering.py: the two batch pipelines            *)
(* prepare_m5_features and prepare_olist_features.  Tables are sequences   *)
(* of records (row order is significant, as in a DataFrame); every         *)
(* statement of the source that changes a table is one action.  A missing  *)
(* cell (NaN / NaT / NA) is the empty tuple NaN, a present nullable cell   *)
(* v is <<v>>.  Means and quotients are exact rationals [num, den]; a      *)
(* standard deviation is kept as its square.                               *)
(***************************************************************************)
EXTENDS Integers, Sequences, FiniteSets, TLC

VARIABLES pc, data_dir, nrows,
          sales, calendar, prices, sales_long, df,
          orders, items, payments, reviews, customers, products, translations,
          order_data, demand_df, product_stats, df_features

vars == <<pc, data_dir, nrows, sales, calendar, prices, sales_long, df,
          orders, items, payments, reviews, customers, products, translations,
          order_data, demand_df, product_stats, df_features>>

m5_vars == <<sales, calendar, prices, sales_long, df>>

olist_vars == <<orders, items, payments, reviews, customers, products,
                translations, order_data, demand_df, product_stats, df_features>>

----------------------------------------------------------------------------
(* Bounds of the model.                                                    *)

MaxEntities == 2
MaxDays == 10
NumPatterns == 2

----------------------------------------------------------------------------
(* Generic helpers: missing values, rationals, sequences.                  *)

NaN == <<>>
None == <<>>

Some(v) == <<v>>

IsNaN(x) == x = NaN

Val(x) == x[1]

Rat(n, d) == [num |-> n, den |-> d]

Min(a, b) == IF a < b THEN a ELSE b

Range(s) == {s[i] : i \in 1..Len(s)}

RECURSIVE SumRange(_, _, _)
SumRange(s, lo, hi) ==
    IF lo > hi THEN 0
    ELSE IF lo = hi THEN s[lo]
    ELSE LET mid == (lo + hi) \div 2
         IN  SumRange(s, lo, mid) + SumRange(s, mid + 1, hi)

SumSeq(s) == SumRange(s, 1, Len(s))

RECURSIVE FlattenRange(_, _, _)
FlattenRange(ss, lo, hi) ==
    IF lo > hi THEN <<>>
    ELSE IF lo = hi THEN ss[lo]
    ELSE LET mid == (lo + hi) \div 2
         IN  FlattenRange(ss, lo, mid) \o FlattenRange(ss, mid + 1, hi)

Flatten(ss) == FlattenRange(ss, 1, Len(ss))

(* The row l with the columns of f added (or replaced).                    *)
Extend(l, f) == [k \in DOMAIN l \cup DOMAIN f |-> IF k \in DOMAIN f THEN f[k] ELSE l[k]]

(* The sequence s with every element evaluated (a table, not a rule).      *)
Tabulate(s) == s \o <<>>

Indices(s) == Tabulate([i \in 1..Len(s) |-> i])

----------------------------------------------------------------------------
(* pandas primitives used by both pipelines.                               *)

(* left.merge(right[cols], on=on, ...): a left row matches the right rows  *)
(* that agree with it on every key column (a missing key matches a missing *)
(* key), and takes the other columns of cols from each of them.            *)
Matches(l, right, on) == SelectSeq(right, LAMBDA r : \A k \in on : l[k] = r[k])

Joined(l, r, on, cols) == Extend(l, [c \in cols \ on |-> r[c]])

Unmatched(l, on, cols) == Extend(l, [c \in cols \ on |-> NaN])

(* DataFrame.merge(how='left'): every left row, in left order, once per    *)
(* matching right row (right order); a left row with no match is kept once *)
(* with the right columns missing.                                         *)
MergeLeft(left, right, on, cols) ==
    Flatten([i \in 1..Len(left) |->
        LET hits == Matches(left[i], right, on)
        IN  IF hits = <<>> THEN <<Unmatched(left[i], on, cols)>>
            ELSE [j \in 1..Len(hits) |-> Joined(left[i], hits[j], on, cols)]])

(* DataFrame.merge() with the default how='inner': as above, but a left    *)
(* row with no match is dropped.                                           *)
MergeInner(left, right, on, cols) ==
    Flatten([i \in 1..Len(left) |->
        LET hits == Matches(left[i], right, on)
        IN  [j \in 1..Len(hits) |-> Joined(left[i], hits[j], on, cols)]])

(* df.groupby(key): the groups in order of first appearance, each the     *)
(* row numbers of its rows in row order; of[i] is the group of row i and   *)
(* pos[i] the place of row i in it.                                        *)
GroupBy(keys) ==
    LET idx == Indices(keys)
        first == SelectSeq(idx, LAMBDA i : \A j \in 1..(i - 1) : keys[j] # keys[i])
        rows == Tabulate([g \in 1..Len(first) |->
                    SelectSeq(idx, LAMBDA i : keys[i] = keys[first[g]])])
        of == Tabulate([i \in 1..Len(keys) |->
                    CHOOSE g \in 1..Len(first) : keys[first[g]] = keys[i]])
        pos == Tabulate([i \in 1..Len(keys) |->
                    Cardinality({j \in 1..i : keys[j] = keys[i]})])
    IN  [key |-> Tabulate([g \in 1..Len(first) |-> keys[first[g]]]),
         rows |-> rows, of |-> of, pos |-> pos]

(* GroupShift without the grouping: Series.shift(n) over the whole column. *)
GroupShift_Ungrouped(grp, col, n) ==
    Tabulate([i \in 1..Len(col) |-> IF i > n THEN Some(col[i - n]) ELSE NaN])

(* groupby(key)[col].shift(n), on the groups grp: the cell n rows earlier  *)
(* among the rows of the same group, in row order; missing for the first n *)
(* rows of a group.  The result is aligned with the rows of the table, not *)
(* grouped.                                                                *)
GroupShift(grp, col, n) ==
    Tabulate([i \in 1..Len(col) |->
        IF grp.pos[i] > n THEN Some(col[grp.rows[grp.of[i]][grp.pos[i] - n]]) ELSE NaN])

(* Series.rolling(w): the window of row i is rows i-w+1..i of the series   *)
(* itself (no grouping); min_periods defaults to w, so a window that is    *)
(* short or holds a missing cell yields missing.                           *)
WindowFull(s, i, w) ==
    /\ i >= w
    /\ \A j \in (i - w + 1)..i : ~IsNaN(s[j])

RollingMean(s, w) ==
    Tabulate([i \in 1..Len(s) |->
        IF WindowFull(s, i, w)
        THEN Some(Rat(SumSeq([j \in 1..w |-> Val(s[i - w + j])]), w))
        ELSE NaN])

(* rolling(w).std(): sample standard deviation (ddof = 1); the cell holds  *)
(* its square, (w*sum(x^2) - sum(x)^2) / (w*(w-1)).                        *)
RollingStd(s, w) ==
    Tabulate([i \in 1..Len(s) |->
        IF WindowFull(s, i, w) /\ w > 1
        THEN LET s1 == SumSeq([j \in 1..w |-> Val(s[i - w + j])])
                 s2 == SumSeq([j \in 1..w |-> Val(s[i - w + j]) * Val(s[i - w + j])])
             IN  Some(Rat(w * s2 - s1 * s1, w * (w - 1)))
        ELSE NaN])

(* groupby(key)[col].mean(): per group, the mean of the non-missing cells *)
(* of col, missing when the group has none.                                *)
GroupMean(grp, col) ==
    Tabulate([g \in 1..Len(grp.rows) |->
        LET xs == SelectSeq(grp.rows[g], LAMBDA i : ~IsNaN(col[i]))
        IN  IF xs = <<>> THEN NaN
            ELSE Some(Rat(SumSeq([j \in 1..Len(xs) |-> Val(col[xs[j]])]), Len(xs)))])

----------------------------------------------------------------------------
(* Dates.  A date cell of calendar.csv is the text "y-m-d", modelled as    *)
(* the record [y, m, d]; pd.to_datetime turns it into an instant, modelled *)
(* as the number of days since 1970-01-01.                                 *)

(* pd.to_datetime on one date text: days since the epoch.                  *)
DaysFromCivil(y, m, d) ==
    LET yy  == IF m <= 2 THEN y - 1 ELSE y
        era == yy \div 400
        yoe == yy - era * 400
        mp  == IF m > 2 THEN m - 3 ELSE m + 9
        doy == ((153 * mp + 2) \div 5) + d - 1
        doe == yoe * 365 + (yoe \div 4) - (yoe \div 100) + doy
    IN  era * 146097 + doe - 719468

ToDatetime(x) == IF IsNaN(x) THEN NaN ELSE Some(DaysFromCivil(Val(x).y, Val(x).m, Val(x).d))

(* Series.dt.dayofweek: Monday = 0 .. Sunday = 6 (1970-01-01: Thursday).   *)
DayOfWeek(days) == (days + 3) % 7

YearOf(days) ==
    LET y0 == 1970 + (days \div 366)
    IN  CHOOSE y \in y0..(y0 + 2) :
            DaysFromCivil(y, 1, 1) <= days /\ days < DaysFromCivil(y + 1, 1, 1)

(* Series.dt.isocalendar().week: the week of the ISO year that holds the   *)
(* Thursday of the date's Monday-based week.                               *)
IsoWeek(days) ==
    LET thursday == days - DayOfWeek(days) + 3
    IN  ((thursday - DaysFromCivil(YearOf(thursday), 1, 1)) \div 7) + 1

----------------------------------------------------------------------------
(* The files of data_dir for prepare_m5_features.  A cell of a column that *)
(* a left join brings in is a nullable cell already in its file.           *)

id_cols == <<"id", "item_id", "dept_id", "cat_id", "store_id", "state_id">>

lags == <<7, 28, 56, 365>>

windows == <<7, 28, 56>>

(* Entity e of sales_train_validation.csv: an (item, store) pair.          *)
EntityIds(e) ==
    [id |-> e, item_id |-> (e + 1) \div 2, dept_id |-> 1, cat_id |-> 1,
     store_id |-> 2 - (e % 2), state_id |-> 2 - (e % 2)]

(* Sales of entity e in its k-th day column, of n; pattern 1 is the toy    *)
(* grid of the specification (1..n ascending, then n..1 descending).       *)
SalesCell(p, e, k, n) ==
    IF p = 1 THEN (IF e % 2 = 1 THEN k ELSE n + 1 - k)
    ELSE (p * k * k + 3 * e + k) % 5

(* The day columns, by day code (d_k is k): ascending, or reversed.        *)
DayColumns(n, order) ==
    [c \in 1..n |-> IF order = "asc" THEN c ELSE n + 1 - c]

SalesFile(nEnt, n, p, order) ==
    [cols |-> DayColumns(n, order),
     rows |-> [e \in 1..nEnt |->
                  [ids  |-> EntityIds(e),
                   vals |-> [c \in 1..n |-> SalesCell(p, e, DayColumns(n, order)[c], n)]]]]

(* The calendar date a number of days after 1970-01-01.                    *)
CivilFromDays(days) ==
    LET z   == days + 719468
        era == z \div 146097
        doe == z - era * 146097
        yoe == (doe - (doe \div 1460) + (doe \div 36524) - (doe \div 146096)) \div 365
        doy == doe - (365 * yoe + (yoe \div 4) - (yoe \div 100))
        mp  == (5 * doy + 2) \div 153
        m   == IF mp < 10 THEN mp + 3 ELSE mp - 9
    IN  [y |-> yoe + era * 400 + (IF m <= 2 THEN 1 ELSE 0), m |-> m,
         d |-> doy - ((153 * mp + 2) \div 5) + 1]

(* 2011-01-29, the date of d_1, in days since 1970-01-01.                  *)
FirstDay == DaysFromCivil(2011, 1, 29)

CalendarRow(k) ==
    LET t == CivilFromDays(FirstDay + k - 1)
    IN  [d |-> k, date |-> Some(t),
         wm_yr_wk |-> Some(11101 + ((k - 1) \div 7)),
         wday |-> Some(((k - 1) % 7) + 1),
         month |-> Some(t.m), year |-> Some(t.y)]

(* calendar.csv: one row per day code from d_1 = 2011-01-29 on, unique on  *)
(* d; it ends one day after the last day column, or one day before it.     *)
CalendarFile(n, short) ==
    [k \in 1..(IF short THEN n - 1 ELSE n + 1) |-> CalendarRow(k)]

(* sell_prices.csv: one row per (store, item, week), unique on that key;   *)
(* with late = TRUE item 1 has no price in the first week.                 *)
PricesFile(n, late) ==
    LET weeks == (n + 6) \div 7
        all == Flatten([s \in 1..2 |-> Flatten([i \in 1..2 |->
                   [w \in 1..weeks |->
                       [store_id |-> s, item_id |-> i, wm_yr_wk |-> Some(11100 + w),
                        sell_price |-> Some(100 * i + 10 * s + (w % 3))]]])])
    IN  SelectSeq(all, LAMBDA r : ~(late /\ r.item_id = 1 /\ r.wm_yr_wk = Some(11101)))

----------------------------------------------------------------------------
(* prepare_m5_features, statement by statement.                            *)

(* pd.read_csv(sales_path, nrows=nrows): the first nrows rows, or all.     *)
ReadSales(file, n) ==
    [file EXCEPT !.rows = IF n = None THEN file.rows
                          ELSE SubSeq(file.rows, 1, Min(Val(n), Len(file.rows)))]

(* sales.melt(id_vars=id_cols, var_name='d', value_name='sales'): the day  *)
(* columns stacked one below the other, in column order.                   *)
Melt(s) ==
    LET R == Len(s.rows)
    IN  Tabulate([i \in 1..(Len(s.cols) * R) |->
            LET c == ((i - 1) \div R) + 1
                r == ((i - 1) % R) + 1
            IN  Extend([k \in Range(id_cols) |-> s.rows[r].ids[k]],
                       [d |-> s.cols[c], sales |-> s.rows[r].vals[c]])])

(* sales_long.merge(calendar[['d','date','wm_yr_wk',...]], on='d',         *)
(*                  how='left')                                            *)
MergeCalendar(long, cal) ==
    MergeLeft(long, cal, {"d"}, {"d", "date", "wm_yr_wk", "wday", "month", "year"})

(* df.merge(prices, on=['store_id','item_id','wm_yr_wk'], how='left')      *)
MergePrices(t, pr) ==
    MergeLeft(t, pr, {"store_id", "item_id", "wm_yr_wk"},
              {"store_id", "item_id", "wm_yr_wk", "sell_price"})

Column(t, c) == Tabulate([i \in 1..Len(t) |-> t[i][c]])

(* df[c] = col                                                             *)
WithColumn(t, c, col) ==
    Tabulate([i \in 1..Len(t) |-> Extend(t[i], [x \in {c} |-> col[i]])])

(* df['date'] = pd.to_datetime(df['date'])                                 *)
ParseDates(t) ==
    WithColumn(t, "date", [i \in 1..Len(t) |-> ToDatetime(t[i].date)])

(* df['dayofweek'] = df['date'].dt.dayofweek (missing for a missing date)  *)
AddDayOfWeek(t) ==
    WithColumn(t, "dayofweek",
        [i \in 1..Len(t) |->
            IF IsNaN(t[i].date) THEN NaN ELSE Some(DayOfWeek(Val(t[i].date)))])

(* .dt.isocalendar().week is a nullable integer column; .astype(int)       *)
(* raises ValueError when it holds a missing cell, that is when some row   *)
(* found no calendar day.                                                  *)
WeekOfYearRaises(t) == \E i \in 1..Len(t) : IsNaN(t[i].date)

(* df['weekofyear'] = df['date'].dt.isocalendar().week.astype(int)         *)
AddWeekOfYear(t) ==
    WithColumn(t, "weekofyear", [i \in 1..Len(t) |-> IsoWeek(Val(t[i].date))])

(* df['is_weekend'] = (df['dayofweek'] >= 5).astype(int); a comparison     *)
(* with a missing cell is False.                                           *)
AddIsWeekend(t) ==
    WithColumn(t, "is_weekend",
        [i \in 1..Len(t) |->
            IF ~IsNaN(t[i].dayofweek) /\ Val(t[i].dayofweek) >= 5 THEN 1 ELSE 0])

(* df['avg_sell_price'] = df.groupby('id')['sell_price'].transform('mean') *)
AddAvgSellPrice(t) ==
    LET grp == GroupBy(Column(t, "id"))
        mean == GroupMean(grp, Column(t, "sell_price"))
    IN  WithColumn(t, "avg_sell_price", [i \in 1..Len(t) |-> mean[grp.of[i]]])

(* df['rel_price'] = df['sell_price'] / df['avg_sell_price']               *)
AddRelPrice(t) ==
    WithColumn(t, "rel_price",
        [i \in 1..Len(t) |->
            IF IsNaN(t[i].sell_price) \/ IsNaN(t[i].avg_sell_price) THEN NaN
            ELSE Some(Rat(Val(t[i].sell_price) * Val(t[i].avg_sell_price).den,
                          Val(t[i].avg_sell_price).num))])

(* for lag in lags: df[f'lag_{lag}'] = df.groupby('id')['sales'].shift(lag)*)
(* The columns lag_7 .. lag_365 are the field lag, indexed by the lag.     *)
AddLags(t) ==
    LET grp == GroupBy(Column(t, "id"))
        col == Column(t, "sales")
        shifted == Tabulate([k \in 1..Len(lags) |-> GroupShift(grp, col, lags[k])])
    IN  WithColumn(t, "lag",
            [i \in 1..Len(t) |-> [L \in Range(lags) |->
                shifted[CHOOSE k \in 1..Len(lags) : lags[k] = L][i]]])

(* AddRolling without shift(1): the window of a row ends at the row itself.*)
AddRolling_NoShift(t) ==
    LET current == Tabulate([i \in 1..Len(t) |-> Some(t[i].sales)])
        rmean == Tabulate([k \in 1..Len(windows) |-> RollingMean(current, windows[k])])
        rstd == Tabulate([k \in 1..Len(windows) |-> RollingStd(current, windows[k])])
    IN  WithColumn(
            WithColumn(t, "rolling_mean",
                [i \in 1..Len(t) |-> [W \in Range(windows) |->
                    rmean[CHOOSE k \in 1..Len(windows) : windows[k] = W][i]]]),
            "rolling_std",
            [i \in 1..Len(t) |-> [W \in Range(windows) |->
                rstd[CHOOSE k \in 1..Len(windows) : windows[k] = W][i]]])

(* for window in windows:                                                  *)
(*   df[f'rolling_mean_{window}'] =                                        *)
(*       df.groupby('id')['sales'].shift(1).rolling(window).mean()         *)
(*   df[f'rolling_std_{window}'] = ... .rolling(window).std()              *)
(* shift(1) is per id; its result is a plain column of df, and rolling()   *)
(* runs over that column in the row order of df.                           *)
AddRolling(t) ==
    LET shifted == GroupShift(GroupBy(Column(t, "id")), Column(t, "sales"), 1)
        rmean == Tabulate([k \in 1..Len(windows) |-> RollingMean(shifted, windows[k])])
        rstd == Tabulate([k \in 1..Len(windows) |-> RollingStd(shifted, windows[k])])
    IN  WithColumn(
            WithColumn(t, "rolling_mean",
                [i \in 1..Len(t) |-> [W \in Range(windows) |->
                    rmean[CHOOSE k \in 1..Len(windows) : windows[k] = W][i]]]),
            "rolling_std",
            [i \in 1..Len(t) |-> [W \in Range(windows) |->
                rstd[CHOOSE k \in 1..Len(windows) : windows[k] = W][i]]])

(* The whole function on the files dir with the row cap n: the table it    *)
(* returns, or the exception it raises.                                    *)
PrepareM5(dir, n) ==
    LET merged == MergePrices(MergeCalendar(Melt(ReadSales(dir.sales, n)), dir.calendar),
                              dir.prices)
        dated == AddDayOfWeek(ParseDates(merged))
    IN  IF WeekOfYearRaises(dated) THEN [status |-> "raised", df |-> <<>>]
        ELSE [status |-> "done",
              df |-> AddRolling(AddLags(AddRelPrice(AddAvgSellPrice(
                         AddIsWeekend(AddWeekOfYear(dated))))))]

----------------------------------------------------------------------------
(* prepare_m5_features as a state machine: pc names the next statement.    *)

Horizons == (1..MaxDays) \cup {L + 1 : L \in Range(lags) \cup Range(windows)}

(* The input directories: every combination on the short horizons, and on  *)
(* the long ones (one day more than a lag or window) the complete files.   *)
M5Dirs ==
    {[sales |-> SalesFile(e, n, p, o), calendar |-> CalendarFile(n, s),
      prices |-> PricesFile(n, l)] :
        e \in 1..MaxEntities, n \in 1..MaxDays, p \in 1..NumPatterns,
        o \in {"asc", "desc"}, s \in BOOLEAN, l \in BOOLEAN}
    \cup
    {[sales |-> SalesFile(e, n, 1, "asc"), calendar |-> CalendarFile(n, FALSE),
      prices |-> PricesFile(n, FALSE)] :
        e \in 1..MaxEntities, n \in Horizons \ (1..MaxDays)}

RowCaps == {None} \cup {Some(k) : k \in 1..MaxEntities}

InitM5 ==
    /\ pc = "read_csv"
    /\ data_dir \in M5Dirs
    /\ nrows \in RowCaps
    /\ sales = <<>> /\ calendar = <<>> /\ prices = <<>>
    /\ sales_long = <<>> /\ df = <<>>
    /\ orders = <<>> /\ items = <<>> /\ payments = <<>> /\ reviews = <<>>
    /\ customers = <<>> /\ products = <<>> /\ translations = <<>>
    /\ order_data = <<>> /\ demand_df = <<>> /\ product_stats = <<>>
    /\ df_features = <<>>

M5ReadCsv ==
    /\ pc = "read_csv"
    /\ sales' = ReadSales(data_dir.sales, nrows)
    /\ calendar' = data_dir.calendar
    /\ prices' = data_dir.prices
    /\ pc' = "melt"
    /\ UNCHANGED <<data_dir, nrows, sales_long, df, olist_vars>>

M5Melt ==
    /\ pc = "melt"
    /\ sales_long' = Melt(sales)
    /\ pc' = "merge_calendar"
    /\ UNCHANGED <<data_dir, nrows, sales, calendar, prices, df, olist_vars>>

M5MergeCalendar ==
    /\ pc = "merge_calendar"
    /\ df' = MergeCalendar(sales_long, calendar)
    /\ pc' = "merge_prices"
    /\ UNCHANGED <<data_dir, nrows, sales, calendar, prices, sales_long, olist_vars>>

(* A statement df = f(df) or df[col] = ... of the function.                *)
M5Statement(at, next, new) ==
    /\ pc = at
    /\ df' = new
    /\ pc' = next
    /\ UNCHANGED <<data_dir, nrows, sales, calendar, prices, sales_long, olist_vars>>

M5MergePrices == M5Statement("merge_prices", "to_datetime", MergePrices(df, prices))

M5ToDatetime == M5Statement("to_datetime", "dayofweek", ParseDates(df))

M5DayOfWeek == M5Statement("dayofweek", "weekofyear", AddDayOfWeek(df))

M5WeekOfYear ==
    /\ ~WeekOfYearRaises(df)
    /\ M5Statement("weekofyear", "is_weekend", AddWeekOfYear(df))

M5WeekOfYearRaise ==
    /\ pc = "weekofyear"
    /\ WeekOfYearRaises(df)
    /\ pc' = "raised"
    /\ UNCHANGED <<data_dir, nrows, m5_vars, olist_vars>>

M5IsWeekend == M5Statement("is_weekend", "avg_sell_price", AddIsWeekend(df))

M5AvgSellPrice == M5Statement("avg_sell_price", "rel_price", AddAvgSellPrice(df))

M5RelPrice == M5Statement("rel_price", "lags", AddRelPrice(df))

M5Lags == M5Statement("lags", "windows", AddLags(df))

M5Rolling == M5Statement("windows", "done", AddRolling(df))

NextM5 ==
    \/ M5ReadCsv
    \/ M5Melt
    \/ M5MergeCalendar
    \/ M5MergePrices
    \/ M5ToDatetime
    \/ M5DayOfWeek
    \/ M5WeekOfYear
    \/ M5WeekOfYearRaise
    \/ M5IsWeekend
    \/ M5AvgSellPrice
    \/ M5RelPrice
    \/ M5Lags
    \/ M5Rolling

SpecM5 == InitM5 /\ [][NextM5]_vars

----------------------------------------------------------------------------
(* The files of data_dir for prepare_olist_features.  An order k is placed *)
(* on the k-th selling day of product 1; a timestamp is a number of        *)
(* minutes since 1970-01-01 00:00.                                         *)

MaxDates == 3
MaxPayments == 2
MaxReviews == 2

olist_lags == <<7, 14, 28>>

(* 2017-01-01, the first selling day, in days since 1970-01-01.            *)
FirstSale == DaysFromCivil(2017, 1, 1)

(* The k-th selling day of product 1: consecutive days, or with gap the    *)
(* second calendar day skipped.                                            *)
SaleDay(k, gap) == FirstSale + (IF gap /\ k > 1 THEN k ELSE k - 1)

(* olist_orders_dataset.csv (unique on order_id): order k on selling day   *)
(* k, and order n + 1 on the first selling day again.  With lost, the      *)
(* customer of order 2 is not in the customers file.                       *)
OrdersFile(n, gap, lost) ==
    [k \in 1..(n + 1) |->
        [order_id |-> k,
         customer_id |-> IF lost /\ k = 2 THEN 99 ELSE (k % 2) + 1,
         order_purchase_timestamp |->
             SaleDay(IF k = n + 1 THEN 1 ELSE k, gap) * 1440 + 60 * k + 30]]

(* olist_order_items_dataset.csv: order k holds 1 + k % 2 items of product *)
(* 1; order 1 also holds one item of product 2.  With orphan, one more     *)
(* item of product 1 names an order that is not in the orders file.        *)
ItemsFile(n, orphan) ==
    LET of(k) == [j \in 1..(1 + (k % 2)) |->
                     [order_id |-> k, order_item_id |-> j, product_id |-> 1,
                      price |-> 50 + j]]
        all == Flatten([k \in 1..(n + 1) |-> of(k)])
        second == <<[order_id |-> 1, order_item_id |-> 3, product_id |-> 2, price |-> 70]>>
        lone == <<[order_id |-> 999, order_item_id |-> 1, product_id |-> 1, price |-> 51]>>
    IN  all \o second \o (IF orphan THEN lone ELSE <<>>)

(* olist_order_payments_dataset.csv: pay payment records per order.        *)
PaymentsFile(n, pay) ==
    Flatten([k \in 1..(n + 1) |->
        [j \in 1..pay |->
            [order_id |-> k, payment_type |-> Some(j), payment_installments |-> Some(j),
             payment_value |-> Some(40 * j + k)]]])

(* olist_order_reviews_dataset.csv: rev review records per order.          *)
ReviewsFile(n, rev) ==
    Flatten([k \in 1..(n + 1) |->
        [j \in 1..rev |-> [order_id |-> k, review_score |-> Some(((k + j) % 5) + 1)]]])

CustomersFile ==
    [c \in 1..2 |->
        [customer_id |-> c, customer_unique_id |-> 10 + c,
         customer_zip_code_prefix |-> 1000 + c]]

(* olist_products_dataset.csv: product 2 has a category without a          *)
(* translation, and no weight.                                             *)
ProductsFile ==
    <<[product_id |-> 1, product_category_name |-> Some("beleza_saude"),
       product_weight_g |-> Some(500), product_length_cm |-> Some(20),
       product_height_cm |-> Some(10), product_width_cm |-> Some(15)],
      [product_id |-> 2, product_category_name |-> Some("cool_stuff"),
       product_weight_g |-> NaN, product_length_cm |-> Some(30),
       product_height_cm |-> Some(12), product_width_cm |-> Some(18)]>>

TranslationsFile ==
    <<[product_category_name |-> Some("beleza_saude"),
       product_category_name_english |-> Some("health_beauty")],
      [product_category_name |-> Some("informatica_acessorios"),
       product_category_name_english |-> Some("computers_accessories")]>>

----------------------------------------------------------------------------
(* prepare_olist_features, statement by statement.                         *)

(* products.merge(translations, on='product_category_name', how='left')    *)
TranslateCategories(prod, tr) ==
    MergeLeft(prod, tr, {"product_category_name"},
              {"product_category_name", "product_category_name_english"})

(* products['category_en'] = products['product_category_name_english']    *)
AddCategoryEn(prod) ==
    WithColumn(prod, "category_en", Column(prod, "product_category_name_english"))

(* items.merge(orders[['order_id','customer_id','order_purchase_timestamp']],*)
(*             on='order_id'): how defaults to 'inner'.                    *)
MergeOrders(it, ord) ==
    MergeInner(it, ord, {"order_id"},
               {"order_id", "customer_id", "order_purchase_timestamp"})

(* order_data.merge(customers[['customer_id','customer_unique_id',         *)
(*   'customer_zip_code_prefix']], on='customer_id'): inner again.         *)
MergeCustomers(od, cust) ==
    MergeInner(od, cust, {"customer_id"},
               {"customer_id", "customer_unique_id", "customer_zip_code_prefix"})

(* order_data.merge(products[[...]], on='product_id', how='left')          *)
MergeProducts(od, prod) ==
    MergeLeft(od, prod, {"product_id"},
              {"product_id", "category_en", "product_weight_g", "product_length_cm",
               "product_height_cm", "product_width_cm"})

(* order_data.merge(payments[[...]], on='order_id', how='left'): one row   *)
(* per payment record of the order.                                        *)
MergePayments(od, pay) ==
    MergeLeft(od, pay, {"order_id"},
              {"order_id", "payment_type", "payment_installments", "payment_value"})

(* order_data.merge(reviews[['order_id','review_score']], on='order_id',   *)
(*                  how='left'): one row per review record of the order.   *)
MergeReviews(od, rev) ==
    MergeLeft(od, rev, {"order_id"}, {"order_id", "review_score"})

(* Timestamp.date(): the day of the instant.                               *)
DateOf(ts) == ts \div 1440

(* order_data['order_date'] = order_data['order_purchase_timestamp'].dt.date*)
AddOrderDate(od) ==
    WithColumn(od, "order_date",
        [i \in 1..Len(od) |-> DateOf(od[i].order_purchase_timestamp)])

(* Lexicographic order of rows a and b on the columns by.                  *)
KeyLess(a, b, by) ==
    \E k \in 1..Len(by) :
        /\ \A j \in 1..(k - 1) : a[by[j]] = b[by[j]]
        /\ a[by[k]] < b[by[k]]

(* DataFrame.sort_values(by): ascending on the columns by; rows of equal   *)
(* key keep their order.                                                   *)
SortValues(t, by) ==
    LET rank == Tabulate([i \in 1..Len(t) |->
                    Cardinality({j \in 1..Len(t) :
                        \/ KeyLess(t[j], t[i], by)
                        \/ ~KeyLess(t[i], t[j], by) /\ j <= i})])
    IN  Tabulate([r \in 1..Len(t) |-> t[CHOOSE i \in 1..Len(t) : rank[i] = r]])

DemandKey(row) == [product_id |-> row.product_id, order_date |-> row.order_date]

(* order_data.groupby(['product_id','order_date']).size()                  *)
(*           .reset_index(name='units'): one row per key that occurs, in   *)
(* key order, with the number of rows of order_data that carry the key.    *)
DemandBy(od) ==
    LET grp == GroupBy(Tabulate([i \in 1..Len(od) |-> DemandKey(od[i])]))
    IN  SortValues(Tabulate([g \in 1..Len(grp.key) |->
                       [product_id |-> grp.key[g].product_id,
                        order_date |-> grp.key[g].order_date,
                        units |-> Len(grp.rows[g])]]),
                   <<"product_id", "order_date">>)

(* for lag in [7, 14, 28]:                                                 *)
(*   demand_df[f'lag_{lag}'] = demand_df.groupby('product_id')['units'].shift(lag)*)
AddOlistLags(t) ==
    LET grp == GroupBy(Column(t, "product_id"))
        col == Column(t, "units")
        shifted == Tabulate([k \in 1..Len(olist_lags) |->
                       GroupShift(grp, col, olist_lags[k])])
    IN  WithColumn(t, "lag",
            [i \in 1..Len(t) |-> [L \in Range(olist_lags) |->
                shifted[CHOOSE k \in 1..Len(olist_lags) : olist_lags[k] = L][i]]])

(* order_data.groupby('product_id').agg(avg_price=('payment_value','mean'),*)
(*   ..., n_orders=('order_id','nunique')).reset_index(): one row per      *)
(* product of order_data, in product order.                                *)
ProductStats(od) ==
    LET grp == GroupBy(Column(od, "product_id"))
        mean(c) == GroupMean(grp, Column(od, c))
        price == mean("payment_value")
        review == mean("review_score")
        weight == mean("product_weight_g")
        length == mean("product_length_cm")
        height == mean("product_height_cm")
        width == mean("product_width_cm")
    IN  SortValues(Tabulate([g \in 1..Len(grp.key) |->
                       [product_id |-> grp.key[g],
                        avg_price |-> price[g], avg_review |-> review[g],
                        avg_weight |-> weight[g], avg_length |-> length[g],
                        avg_height |-> height[g], avg_width |-> width[g],
                        n_orders |->
                            Some(Cardinality({od[i].order_id : i \in Range(grp.rows[g])}))]]),
                   <<"product_id">>)

(* demand_df.merge(product_stats, on='product_id', how='left')             *)
MergeStats(dem, st) ==
    MergeLeft(dem, st, {"product_id"},
              {"product_id", "avg_price", "avg_review", "avg_weight", "avg_length",
               "avg_height", "avg_width", "n_orders"})

(* The whole function on the files dir: the table it returns.              *)
PrepareOlist(dir) ==
    LET prod == AddCategoryEn(TranslateCategories(dir.products, dir.translations))
        od == AddOrderDate(MergeReviews(MergePayments(MergeProducts(
                  MergeCustomers(MergeOrders(dir.items, dir.orders), dir.customers),
                  prod), dir.payments), dir.reviews))
    IN  MergeStats(AddOlistLags(SortValues(DemandBy(od), <<"product_id", "order_date">>)),
                   ProductStats(od))

----------------------------------------------------------------------------
(* prepare_olist_features as a state machine.                              *)

OlistHorizons == (1..MaxDates) \cup {L + 1 : L \in Range(olist_lags)}

OlistDirs ==
    {[orders |-> OrdersFile(n, gap, lost), items |-> ItemsFile(n, orphan),
      payments |-> PaymentsFile(n, pay), reviews |-> ReviewsFile(n, rev),
      customers |-> CustomersFile, products |-> ProductsFile,
      translations |-> TranslationsFile] :
        n \in OlistHorizons, gap \in BOOLEAN, lost \in BOOLEAN, orphan \in BOOLEAN,
        pay \in 0..MaxPayments, rev \in 0..MaxReviews}

InitOlist ==
    /\ pc = "read_csv"
    /\ data_dir \in OlistDirs
    /\ nrows = None
    /\ sales = <<>> /\ calendar = <<>> /\ prices = <<>>
    /\ sales_long = <<>> /\ df = <<>>
    /\ orders = <<>> /\ items = <<>> /\ payments = <<>> /\ reviews = <<>>
    /\ customers = <<>> /\ products = <<>> /\ translations = <<>>
    /\ order_data = <<>> /\ demand_df = <<>> /\ product_stats = <<>>
    /\ df_features = <<>>

OlistReadCsv ==
    /\ pc = "read_csv"
    /\ orders' = data_dir.orders
    /\ items' = data_dir.items
    /\ payments' = data_dir.payments
    /\ reviews' = data_dir.reviews
    /\ customers' = data_dir.customers
    /\ products' = data_dir.products
    /\ translations' = data_dir.translations
    /\ pc' = "translate"
    /\ UNCHANGED <<data_dir, nrows, m5_vars, order_data, demand_df, product_stats,
                   df_features>>

olist_files == <<orders, items, payments, reviews, customers, translations>>

OlistTranslate ==
    /\ pc = "translate"
    /\ products' = TranslateCategories(products, translations)
    /\ pc' = "category_en"
    /\ UNCHANGED <<data_dir, nrows, m5_vars, olist_files, order_data, demand_df,
                   product_stats, df_features>>

OlistCategoryEn ==
    /\ pc = "category_en"
    /\ products' = AddCategoryEn(products)
    /\ pc' = "merge_orders"
    /\ UNCHANGED <<data_dir, nrows, m5_vars, olist_files, order_data, demand_df,
                   product_stats, df_features>>

(* A statement order_data = f(...) of the function.                        *)
OrderDataStatement(at, next, new) ==
    /\ pc = at
    /\ order_data' = new
    /\ pc' = next
    /\ UNCHANGED <<data_dir, nrows, m5_vars, olist_files, products, demand_df,
                   product_stats, df_features>>

OlistMergeOrders ==
    OrderDataStatement("merge_orders", "merge_customers", MergeOrders(items, orders))

OlistMergeCustomers ==
    OrderDataStatement("merge_customers", "merge_products",
                       MergeCustomers(order_data, customers))

OlistMergeProducts ==
    OrderDataStatement("merge_products", "merge_payments",
                       MergeProducts(order_data, products))

OlistMergePayments ==
    OrderDataStatement("merge_payments", "merge_reviews",
                       MergePayments(order_data, payments))

OlistMergeReviews ==
    OrderDataStatement("merge_reviews", "order_date", MergeReviews(order_data, reviews))

OlistOrderDate ==
    OrderDataStatement("order_date", "demand", AddOrderDate(order_data))

(* A statement demand_df = f(...) of the function.                         *)
DemandStatement(at, next, new) ==
    /\ pc = at
    /\ demand_df' = new
    /\ pc' = next
    /\ UNCHANGED <<data_dir, nrows, m5_vars, olist_files, products, order_data,
                   product_stats, df_features>>

OlistDemand == DemandStatement("demand", "sort_values", DemandBy(order_data))

OlistSortValues ==
    DemandStatement("sort_values", "lags",
                    SortValues(demand_df, <<"product_id", "order_date">>))

OlistLags == DemandStatement("lags", "product_stats", AddOlistLags(demand_df))

OlistProductStats ==
    /\ pc = "product_stats"
    /\ product_stats' = ProductStats(order_data)
    /\ pc' = "merge_stats"
    /\ UNCHANGED <<data_dir, nrows, m5_vars, olist_files, products, order_data,
                   demand_df, df_features>>

OlistMergeStats ==
    /\ pc = "merge_stats"
    /\ df_features' = MergeStats(demand_df, product_stats)
    /\ pc' = "done"
    /\ UNCHANGED <<data_dir, nrows, m5_vars, olist_files, products, order_data,
                   demand_df, product_stats>>

NextOlist ==
    \/ OlistReadCsv
    \/ OlistTranslate
    \/ OlistCategoryEn
    \/ OlistMergeOrders
    \/ OlistMergeCustomers
    \/ OlistMergeProducts
    \/ OlistMergePayments
    \/ OlistMergeReviews
    \/ OlistOrderDate
    \/ OlistDemand
    \/ OlistSortValues
    \/ OlistLags
    \/ OlistProductStats
    \/ OlistMergeStats

SpecOlist == InitOlist /\ [][NextOlist]_vars

----------------------------------------------------------------------------
(* Properties of prepare_m5_features, stated on the files read and on the  *)
(* table returned.                                                         *)

M5Done == pc = "done" /\ sales # <<>>

M5Ended == pc \in {"done", "raised"} /\ sales # <<>>

(* The row of the wide sales table of entity id, and the position of day   *)
(* code d among its day columns.                                           *)
WideRow(id) == CHOOSE r \in 1..Len(sales.rows) : sales.rows[r].ids.id = id

ColumnOf(d) == CHOOSE c \in 1..Len(sales.cols) : sales.cols[c] = d

OwnSales(id) == sales.rows[WideRow(id)].vals

(* The date of a day code according to the calendar file.                  *)
CalendarDate(d) ==
    LET hit == SelectSeq(calendar, LAMBDA r : r.d = d)
    IN  IF hit = <<>> THEN NaN ELSE ToDatetime(hit[1].date)

(* The day columns are in ascending order of their calendar dates.         *)
Chronological ==
    LET dates == Tabulate([c \in 1..Len(sales.cols) |-> CalendarDate(sales.cols[c])])
    IN  /\ \A c \in 1..Len(dates) : ~IsNaN(dates[c])
        /\ \A c \in 2..Len(dates) : Val(dates[c - 1]) < Val(dates[c])

CalendarUnique ==
    \A i, j \in 1..Len(calendar) : calendar[i].d = calendar[j].d => i = j

PricesUnique ==
    \A i, j \in 1..Len(prices) :
        (/\ prices[i].store_id = prices[j].store_id
         /\ prices[i].item_id = prices[j].item_id
         /\ prices[i].wm_yr_wk = prices[j].wm_yr_wk) => i = j

(* Sum and sum of squares of own[t-w .. t-1].                              *)
OwnSum(own, t, w) == SumSeq([j \in 1..w |-> own[t - w - 1 + j]])

OwnSquares(own, t, w) == SumSeq([j \in 1..w |-> own[t - w - 1 + j] * own[t - w - 1 + j]])

(* C1: for every entity E, window W and output row (E, day t) with at      *)
(* least W earlier days of E, rolling_mean_W is the mean and rolling_std_W *)
(* the sample standard deviation of E's own sales on days t-W..t-1, for    *)
(* any number of entities.                                                 *)
C1_RollingUsesOwnWindow ==
    M5Done =>
        \A i \in 1..Len(df) : \A W \in Range(windows) :
            LET t == ColumnOf(df[i].d)
                own == OwnSales(df[i].id)
            IN  t - 1 >= W =>
                    /\ df[i].rolling_mean[W] = Some(Rat(OwnSum(own, t, W), W))
                    /\ df[i].rolling_std[W] =
                           Some(Rat(W * OwnSquares(own, t, W)
                                      - OwnSum(own, t, W) * OwnSum(own, t, W),
                                    W * (W - 1)))

(* C2: rolling_mean_W(E,t) is missing whenever fewer than W observations   *)
(* of E precede t and is a number whenever at least W do, with one entity  *)
(* or with several.                                                        *)
C2_RollingMinimumPeriods ==
    M5Done =>
        \A i \in 1..Len(df) : \A W \in Range(windows) :
            IsNaN(df[i].rolling_mean[W]) <=> (ColumnOf(df[i].d) - 1 < W)

(* The computed columns of an output row.                                  *)
Computed(row) ==
    [lag |-> row.lag, rolling_mean |-> row.rolling_mean, rolling_std |-> row.rolling_std,
     avg_sell_price |-> row.avg_sell_price, rel_price |-> row.rel_price,
     dayofweek |-> row.dayofweek, weekofyear |-> row.weekofyear,
     is_weekend |-> row.is_weekend]

(* C3: a row cap does not alter computed features: every (entity, day) row *)
(* of the run with nrows = n carries the values of the same row of the run *)
(* with nrows = None.                                                      *)
C3_RowCapKeepsFeatures ==
    M5Done =>
        LET full == PrepareM5(data_dir, None).df
        IN  \A i \in 1..Len(df) : \A j \in 1..Len(full) :
                (full[j].id = df[i].id /\ full[j].d = df[i].d) =>
                    Computed(full[j]) = Computed(df[i])

(* C5: with the day columns in chronological order, lag_L at (E, t) is E's *)
(* own sales at position t-L, and is missing exactly when t-L precedes E's *)
(* first observation; every (E, t) has its row.                            *)
C5_LagIsOwnEarlierValue ==
    (M5Done /\ Chronological) =>
        /\ {<<sales.rows[r].ids.id, sales.cols[c]>> :
                r \in 1..Len(sales.rows), c \in 1..Len(sales.cols)}
              \subseteq {<<df[i].id, df[i].d>> : i \in 1..Len(df)}
        /\ \A i \in 1..Len(df) :
               LET t == ColumnOf(df[i].d)
                   own == OwnSales(df[i].id)
               IN  \A L \in Range(lags) :
                       df[i].lag[L] = IF t - L >= 1 THEN Some(own[t - L]) ELSE NaN

(* A run in which lags of both kinds occur: two entities, a day with a     *)
(* year-old value and days without one.                                    *)
C5_Witness ==
    /\ M5Done /\ Chronological
    /\ Len(sales.rows) >= 2
    /\ \E i, j \in 1..Len(df) :
           /\ ~IsNaN(df[i].lag[365]) /\ IsNaN(df[j].lag[365])
           /\ ~IsNaN(df[j].lag[7])

(* C7: with calendar unique on d and prices unique on their key, the table *)
(* returned has exactly entities x day-columns rows, each cell of the wide *)
(* table in exactly one row with its sales value, whether or not the cell  *)
(* has a calendar day or a price.                                          *)
C7_EveryCellOnceInReturnedTable ==
    (M5Ended /\ CalendarUnique /\ PricesUnique) =>
        /\ pc = "done"
        /\ Len(df) = Len(sales.rows) * Len(sales.cols)
        /\ \A r \in 1..Len(sales.rows) : \A c \in 1..Len(sales.cols) :
               Cardinality({i \in 1..Len(df) :
                   /\ df[i].id = sales.rows[r].ids.id
                   /\ df[i].d = sales.cols[c]
                   /\ df[i].sales = sales.rows[r].vals[c]}) = 1

(* The number of rows of entity id dated up to the date of row i.          *)
DateRank(i) ==
    Cardinality({j \in 1..Len(df) :
        df[j].id = df[i].id /\ Val(df[j].date) <= Val(df[i].date)})

(* C8: whatever the order of the day columns, lag_L at (E, date t) is E's  *)
(* sales at the L-th earlier date, never a value of a later date.          *)
C8_LagsFollowDates ==
    M5Done =>
        \A i \in 1..Len(df) : \A L \in Range(lags) :
            /\ DateRank(i) <= L => IsNaN(df[i].lag[L])
            /\ \A j \in 1..Len(df) :
                   (df[j].id = df[i].id /\ DateRank(j) = DateRank(i) - L) =>
                       df[i].lag[L] = Some(df[j].sales)

(* The toy grid of the specification: 2 entities x 10 days.                *)
ToyGrid ==
    /\ M5Done
    /\ sales.cols = <<1, 2, 3, 4, 5, 6, 7, 8, 9, 10>>
    /\ Len(sales.rows) = 2
    /\ sales.rows[1].vals = <<1, 2, 3, 4, 5, 6, 7, 8, 9, 10>>
    /\ sales.rows[2].vals = <<10, 9, 8, 7, 6, 5, 4, 3, 2, 1>>

(* The output row of the toy grid for the e-th entity at 0-based day k.    *)
ToyRow(e, k) ==
    df[CHOOSE i \in 1..Len(df) :
           df[i].id = sales.rows[e].ids.id /\ df[i].d = sales.cols[k + 1]]

(* A mean equals the whole number v.                                       *)
MeanIs(x, v) == ~IsNaN(x) /\ Val(x).num = v * Val(x).den

(* C9 as stated: on the toy grid rolling_mean_7 at day index 9 of entity 1 *)
(* is 5.0, lag_7 there is 3 for entity 1 and 8 for entity 2.               *)
C9_ToyGridAsStated ==
    ToyGrid =>
        /\ MeanIs(ToyRow(1, 9).rolling_mean[7], 5)
        /\ ToyRow(1, 9).lag[7] = Some(3)
        /\ ToyRow(2, 9).lag[7] = Some(8)

(* C9 amended: on the toy grid rolling_mean_7 at day index 9 of entity 1   *)
(* is 6.0, lag_7 there is 3 for entity 1 and 8 for entity 2.               *)
C9_ToyGrid ==
    ToyGrid =>
        /\ MeanIs(ToyRow(1, 9).rolling_mean[7], 6)
        /\ ToyRow(1, 9).lag[7] = Some(3)
        /\ ToyRow(2, 9).lag[7] = Some(8)

C9_Witness == ToyGrid /\ ~IsNaN(ToyRow(1, 9).rolling_mean[7])

----------------------------------------------------------------------------
(* Properties of prepare_olist_features.                                   *)

OlistDone == pc = "done" /\ items # <<>>

(* Both inner joins and every left join of order_data have run.            *)
OrderDataJoined ==
    /\ items # <<>>
    /\ pc \in {"order_date", "demand", "sort_values", "lags", "product_stats",
               "merge_stats", "done"}

(* The order-item records of product p whose order was purchased on day t. *)
ItemsSold(p, t) ==
    {k \in 1..Len(items) :
        /\ items[k].product_id = p
        /\ \E o \in 1..Len(orders) :
               /\ orders[o].order_id = items[k].order_id
               /\ DateOf(orders[o].order_purchase_timestamp) = t}

(* C4: units of every (product, order date) row is the number of           *)
(* order-item records of the product purchased on that date, also for      *)
(* orders with several payment or review records.                          *)
C4_UnitsCountItems ==
    OlistDone =>
        \A i \in 1..Len(df_features) :
            df_features[i].units =
                Cardinality(ItemsSold(df_features[i].product_id, df_features[i].order_date))

(* C6: no join removes a left row for want of a match: every order-item    *)
(* record is kept in the joined item-level table, also when its order or   *)
(* its customer is not in the right table.                                 *)
C6_JoinsKeepUnmatchedRows ==
    OrderDataJoined =>
        \A k \in 1..Len(items) : \E i \in 1..Len(order_data) :
            /\ order_data[i].order_id = items[k].order_id
            /\ order_data[i].order_item_id = items[k].order_item_id

(* C10: lag_L at (P, t) is the units of P on the date L days before t when *)
(* the output has that row and missing otherwise, also for products with   *)
(* days without a sale.                                                    *)
C10_LagsAreCalendarDays ==
    OlistDone =>
        \A i \in 1..Len(df_features) : \A L \in Range(olist_lags) :
            LET earlier == {j \in 1..Len(df_features) :
                               /\ df_features[j].product_id = df_features[i].product_id
                               /\ df_features[j].order_date = df_features[i].order_date - L}
            IN  IF earlier = {} THEN IsNaN(df_features[i].lag[L])
                ELSE \A j \in earlier :
                         df_features[i].lag[L] = Some(df_features[j].units)

====
